---------------------------- MODULE Spec2Model ----------------------------
(***************************************************************************)
(* Model of schema-sorbet's openapi-sorbet command: the loop of main over  *)
(* the component schemas, parseSchema and the resolvers it dispatches to   *)
(* (parseString, parseBoolean, parseObject, parseArray), and the loop of   *)
(* main over the result list that writes one file for each Type.           *)
(*                                                                         *)
(* Two revisions of the command are in the repository.  The resolver built *)
(* on libopenapi (boolean schemas, inline nested objects, array items) is  *)
(* engine "libopenapi"; cmd/openapi-sorbet/main.go, built on kin-openapi,  *)
(* is engine "kin".  Both share the shape of parseObject: a loop over the  *)
(* property map, a stable sort by Name, the additional-properties step.    *)
(*                                                                         *)
(* A Go string is a sequence of bytes, so that strcase.ToCamel and         *)
(* strcase.ToSnake are computed byte by byte as the library does, and      *)
(* a.Name < b.Name is Go's bytewise order.  Type tags ("string", ...) are  *)
(* only ever compared with literals and stay TLA+ strings.                 *)
(*                                                                         *)
(* Go ranges over a map in an unspecified order: each iteration of a       *)
(* range over a map is a step that picks any key not yet visited.          *)
(*                                                                         *)
(* Description/Comment and Property.Ref (never assigned) are left out:     *)
(* no resolver reads them.                                                 *)
(***************************************************************************)
EXTENDS Integers, Sequences, FiniteSets, TLC

(* ----------------------------------------------------------------------- *)
(* Bounds of the input documents.                                          *)
(* ----------------------------------------------------------------------- *)

\* longest enum literal list of a string schema
MaxEnumLen == 2

\* deepest chain of inline objects below a top-level object schema
MaxDepth == 2

(* ----------------------------------------------------------------------- *)
(* Go strings as byte sequences.                                           *)
(* ----------------------------------------------------------------------- *)

\* "String"
TString == <<83, 116, 114, 105, 110, 103>>

\* "Integer"
TInteger == <<73, 110, 116, 101, 103, 101, 114>>

\* "T::Boolean"
TBoolean == <<84, 58, 58, 66, 111, 111, 108, 101, 97, 110>>

\* "T.untyped"
SorbetUntyped == <<84, 46, 117, 110, 116, 121, 112, 101, 100>>

\* "T::Struct"
TStruct == <<84, 58, 58, 83, 116, 114, 117, 99, 116>>

\* "_", the separator parseObject puts between a parent and a property name
Sep == <<95>>

\* ".", which the diagnostics about a property put between the two names
Dot == <<46>>

IsCap(v) == v >= 65 /\ v <= 90

IsLow(v) == v >= 97 /\ v <= 122

IsNum(v) == v >= 48 /\ v <= 57

\* the bytes ' ', '_', '-', '.' that strcase treats as word separators
IsDelim(v) == v \in {32, 95, 45, 46}

\* Go's s < t on strings: bytewise lexicographic order
RECURSIVE StrLess(_, _)
StrLess(s, t) ==
    IF t = <<>> THEN FALSE
    ELSE IF s = <<>> THEN TRUE
    ELSE IF s[1] # t[1] THEN s[1] < t[1]
    ELSE StrLess(Tail(s), Tail(t))

\* strcase.ToCamel (v0.2.0, toCamelInitCase with initCase = true): the loop
\* over the bytes with its capNext flag; n is the builder.
RECURSIVE camelFrom(_, _, _, _)
camelFrom(s, i, capNext, n) ==
    IF i > Len(s) THEN n
    ELSE LET v0     == s[i]
             vIsCap == IsCap(v0)
             vIsLow == IsLow(v0)
             v      == IF capNext
                         THEN (IF vIsLow THEN v0 - 32 ELSE v0)
                         ELSE IF i = 1
                                THEN (IF vIsCap THEN v0 + 32 ELSE v0)
                                ELSE v0
         IN  IF vIsCap \/ vIsLow
               THEN camelFrom(s, i + 1, FALSE, Append(n, v))
               ELSE IF IsNum(v0)
                      THEN camelFrom(s, i + 1, TRUE, Append(n, v))
                      ELSE camelFrom(s, i + 1, IsDelim(v0), n)

ToCamel(s) == IF s = <<>> THEN s ELSE camelFrom(s, 1, TRUE, <<>>)

\* strcase.ToSnake = ToScreamingDelimited(s, '_', "", false): a delimiter is
\* written where the case type changes; separators become '_'.
RECURSIVE snakeFrom(_, _, _)
snakeFrom(s, i, n) ==
    IF i > Len(s) THEN n
    ELSE LET v0     == s[i]
             vIsCap == IsCap(v0)
             vIsLow == IsLow(v0)
             v      == IF vIsCap THEN v0 + 32 ELSE v0
             vIsNum == IsNum(v)
             hasNext == i < Len(s)
             next   == IF hasNext THEN s[i + 1] ELSE 0
             change == /\ hasNext
                       /\ \/ vIsCap /\ (IsLow(next) \/ IsNum(next))
                          \/ vIsLow /\ (IsCap(next) \/ IsNum(next))
                          \/ vIsNum /\ (IsCap(next) \/ IsLow(next))
             prevIsCap == i > 1 /\ IsCap(s[i - 1])
             n1     == IF vIsCap /\ IsLow(next) /\ prevIsCap
                         THEN Append(n, 95) ELSE n
             n2     == Append(n1, v)
             n3     == IF vIsLow \/ vIsNum \/ IsNum(next)
                         THEN Append(n2, 95) ELSE n2
         IN  IF change THEN snakeFrom(s, i + 1, n3)
             ELSE IF IsDelim(v) THEN snakeFrom(s, i + 1, Append(n, 95))
             ELSE snakeFrom(s, i + 1, Append(n, v))

ToSnake(s) == snakeFrom(s, 1, <<>>)

\* parts := strings.Split(ref, "/"); parts[len(parts)-1]
RECURSIVE LastSegment(_)
LastSegment(ref) ==
    IF \E i \in 1..Len(ref) : ref[i] = 47
      THEN LastSegment(Tail(ref))
      ELSE ref

(* ----------------------------------------------------------------------- *)
(* Schema nodes, as the schema library hands them to the resolvers.        *)
(*   ref      the reference path; <<>> when the node is no reference       *)
(*   type     the declared type tags ([]string); <<>> when absent          *)
(*   enum     the enum literal slice: present = FALSE is Go's nil slice    *)
(*   props    the property map, name -> node                               *)
(*   required the required property names                                  *)
(*   items    <<>> for a nil Items pointer, else <<d>> with d.N = 1 for    *)
(*            `items: <bool>` (d.B) and d.N = 0 for an item schema (d.A)   *)
(*   addl     AdditionalProperties: nil, a bool, or a schema               *)
(* ----------------------------------------------------------------------- *)

NoEnum == [present |-> FALSE, vals |-> <<>>]

Blank ==
    [ref |-> <<>>, type |-> <<>>, enum |-> NoEnum, props |-> <<>>,
     required |-> {}, items |-> <<>>, addl |-> [kind |-> "nil"]]

\* "#/components/schemas/"
RefPrefix ==
    <<35, 47, 99, 111, 109, 112, 111, 110, 101, 110, 116, 115, 47,
      115, 99, 104, 101, 109, 97, 115, 47>>

\* the names of the documents: "a", "a_b", "b", "aB"
NameA == <<97>>

NameA_B == <<97, 95, 98>>

NameB == <<98>>

NameAB == <<97, 66>>

RefTo(n) == [Blank EXCEPT !.ref = RefPrefix \o n]

Prim(tag) == [Blank EXCEPT !.type = <<tag>>]

Untagged == Blank

\* enum literals: a literal is a string, a number (42) or null
Literals ==
    { [kind |-> "string", val |-> NameB],
      [kind |-> "string", val |-> NameA_B],
      [kind |-> "int", val |-> <<52, 50>>],
      [kind |-> "nil", val |-> <<>>] }

SeqsUpTo(S, n) == UNION { [1..m -> S] : m \in 0..n }

StringNodes ==
    { Prim("string") } \cup
    { [Blank EXCEPT !.type = <<"string">>,
                    !.enum = [present |-> TRUE, vals |-> e]] :
        e \in SeqsUpTo(Literals, MaxEnumLen) }

ItemChoices ==
    { <<>>,
      <<[N |-> 1, B |-> TRUE]>>,
      <<[N |-> 1, B |-> FALSE]>>,
      <<[N |-> 0, A |-> RefTo(NameA_B)]>>,
      <<[N |-> 0, A |-> Prim("string")]>>,
      <<[N |-> 0, A |-> Prim("integer")]>>,
      <<[N |-> 0, A |-> Prim("boolean")]>>,
      <<[N |-> 0, A |-> Untagged]>> }

ArrayNodes == { [Blank EXCEPT !.type = <<"array">>, !.items = it] : it \in ItemChoices }

AddlChoices ==
    { [kind |-> "nil"],
      [kind |-> "bool", b |-> TRUE],
      [kind |-> "bool", b |-> FALSE],
      [kind |-> "schema", schema |-> Prim("string")],
      [kind |-> "schema", schema |-> Prim("integer")],
      [kind |-> "schema", schema |-> Prim("boolean")],
      [kind |-> "schema", schema |-> Untagged] }

Obj(props, required, addl) ==
    [Blank EXCEPT !.type = <<"object">>, !.props = props,
                  !.required = required, !.addl = addl]

EmptyObj == Obj(<<>>, {}, [kind |-> "nil"])

\* property schemas that are not inline objects
PropLeaf ==
    { RefTo(NameA_B), Prim("string"), Prim("boolean"), Prim("integer"),
      Prim("number"), Untagged } \cup ArrayNodes

PropNames == { NameB, NameAB, NameA_B }

RequiredChoices == { {}, {NameB}, {NameAB}, {NameA_B, NameB} }

\* objects of string properties under every choice of names and required set
ObjNames ==
    { Obj([n \in S |-> Prim("string")], r, [kind |-> "nil"]) :
        S \in SUBSET PropNames, r \in RequiredChoices }

\* objects under every additional-properties declaration
ObjAddl == { Obj([n \in {NameB} |-> Prim("string")], {}, a) : a \in AddlChoices }

\* objects with property "b" of every kind beside a second property "a_b"
ObjKinds(kids, second) ==
    { Obj([n \in {NameB, NameA_B} |-> IF n = NameB THEN x ELSE y],
          {NameB}, [kind |-> "nil"]) :
        x \in kids, y \in second }

\* object schemas whose inline objects nest at most d - 1 levels deep: an
\* inline object stands beside a second, empty inline object
RECURSIVE Objects(_)
Objects(d) ==
    IF d = 0 THEN {}
    ELSE ObjNames \cup ObjAddl \cup
         ObjKinds(PropLeaf, { Prim("string"), Untagged }) \cup
         ObjKinds(Objects(d - 1), {EmptyObj})

TopNodes ==
    StringNodes \cup ArrayNodes \cup Objects(MaxDepth + 1) \cup
    { Prim("boolean"), Prim("integer"), Untagged, RefTo(NameA_B) }

\* the second schema of a document
SecondNodes ==
    { Untagged, Prim("boolean"), Obj([n \in {NameB} |-> EmptyObj], {}, [kind |-> "nil"]) }

\* the documents: schema "a" alone, or "a" and "a_b"
Documents ==
    { [k \in {NameA} |-> x] : x \in TopNodes } \cup
    { [k \in {NameA, NameA_B} |-> IF k = NameA THEN x ELSE y] :
        x \in TopNodes, y \in SecondNodes }

(* ----------------------------------------------------------------------- *)
(* The intermediate records and the results of the resolvers.              *)
(* ----------------------------------------------------------------------- *)

\* Type{} with the four fields every resolver sets first
NewType(name) ==
    [SchemaName |-> name, TypeName |-> ToCamel(name), Filename |-> ToSnake(name),
     BaseClass |-> <<>>, Properties |-> <<>>, Enum |-> <<>>, Alias |-> <<>>,
     AdditionalProperties |-> <<>>, IsArray |-> FALSE]

IsObject(t) == t.BaseClass = TStruct

IsEnum(t) == Len(t.Enum) > 0

\* a line written by log.Printf/log.Println (or fmt.Printf in the kin engine),
\* named by the source line of the call and the schema it is about.  Code
\* the two revisions share word for word (parseString, the loop of main)
\* names its lines as in the libopenapi revision.
Diag(line, name) == [line |-> line, name |-> name]

\* a resolver returned `types` after writing `lg`
Ok(ts, lg) == [ok |-> TRUE, types |-> ts, log |-> lg]

\* a resolver panicked (the run aborts) after writing `lg`
Panic(lg) == [ok |-> FALSE, types |-> <<>>, log |-> lg]

(* ----------------------------------------------------------------------- *)
(* parseString, parseBoolean, parseArray.                                  *)
(* ----------------------------------------------------------------------- *)

\* for _, enum := range v.Enum: a string literal is appended, any other
\* literal is logged and skipped
RECURSIVE enumLoop(_, _, _, _, _)
enumLoop(name, vals, i, enum, lg) ==
    IF i > Len(vals) THEN [enum |-> enum, log |-> lg]
    ELSE IF vals[i].kind # "string"
           THEN enumLoop(name, vals, i + 1, enum, Append(lg, Diag(117, name)))
           ELSE enumLoop(name, vals, i + 1,
                         Append(enum, [Name |-> ToCamel(vals[i].val),
                                       Value |-> vals[i].val]),
                         lg)

\* v.Enum[0] of an empty slice is an index out of range, and
\* reflect.TypeOf(nil) is the nil Type, whose String() dereferences nil
parseString(name, v) ==
    LET t == [NewType(name) EXCEPT !.Alias = TString]
        e == v.enum
    IN  IF ~e.present THEN Ok(<<t>>, <<>>)
        ELSE IF Len(e.vals) = 0 THEN Panic(<<>>)
        ELSE IF e.vals[1].kind = "nil" THEN Panic(<<>>)
        ELSE LET warn == IF e.vals[1].kind # "string"
                           THEN <<Diag(112, name)>> ELSE <<>>
                 loop == enumLoop(name, e.vals, 1, <<>>, warn)
             IN  Ok(<<[t EXCEPT !.Enum = loop.enum]>>, loop.log)

parseBoolean(name, v) == Ok(<<[NewType(name) EXCEPT !.Alias = TBoolean]>>, <<>>)

\* mutant of arrayOfUntyped: the open-array marker is forgotten
arrayOfUntypedUnmarked(t) == [t EXCEPT !.Alias = <<>>]

\* the `items: true` arm of parseArray
arrayOfUntyped(t) == [t EXCEPT !.Alias = <<>>, !.AdditionalProperties = SorbetUntyped]

\* the reference arm of parseArray: the last path segment, as written
arrayRefAlias(ref) == LastSegment(ref)

\* v.Items is a pointer; IsB()/IsA() read its field N, so a nil Items panics
parseArray(name, v) ==
    LET t == [NewType(name) EXCEPT !.Alias = SorbetUntyped, !.IsArray = TRUE]
    IN  IF v.items = <<>> THEN Panic(<<>>)
        ELSE LET d == v.items[1]
             IN  IF d.N = 1 THEN Ok(<<arrayOfUntyped(t)>>, <<>>)
                 ELSE IF d.A.ref # <<>>
                   THEN Ok(<<[t EXCEPT !.Alias = arrayRefAlias(d.A.ref)]>>, <<>>)
                 ELSE IF Len(d.A.type) > 0
                   THEN CASE d.A.type[1] = "string" ->
                               Ok(<<[t EXCEPT !.Alias = TString]>>, <<>>)
                          [] d.A.type[1] = "integer" ->
                               Ok(<<[t EXCEPT !.Alias = TInteger]>>, <<>>)
                          [] OTHER -> Ok(<<t>>, <<Diag(283, name)>>)
                 ELSE Ok(<<t>>, <<Diag(286, name)>>)

\* the array arm of parseSchema in cmd/openapi-sorbet/main.go
kinArray(name, v) ==
    Ok(<<[NewType(name) EXCEPT !.Alias = SorbetUntyped, !.IsArray = TRUE]>>, <<>>)

(* ----------------------------------------------------------------------- *)
(* parseSchema, for every schema but an object: an object is resolved by   *)
(* the steps of parseObject below.                                         *)
(* ----------------------------------------------------------------------- *)

\* mutant of untaggedSchema: an untyped placeholder is emitted
untaggedSchemaPlaceholder(name) ==
    Ok(<<[NewType(name) EXCEPT !.Alias = SorbetUntyped]>>, <<Diag(298, name)>>)

\* the arm of parseSchema for a schema with no type tag
untaggedSchema(name) == Ok(<<>>, <<Diag(298, name)>>)

parseSchema(name, v) ==
    IF Len(v.type) = 0 THEN untaggedSchema(name)
    ELSE CASE v.type[1] = "string"  -> parseString(name, v)
           [] v.type[1] = "boolean" -> parseBoolean(name, v)
           [] v.type[1] = "array"   -> parseArray(name, v)
           [] OTHER                 -> Ok(<<>>, <<Diag(312, name)>>)

\* v.Value.Type of kin-openapi is one string, "" when absent
kinType(v) == IF v.type = <<>> THEN "" ELSE v.type[1]

kinParseSchema(name, v) ==
    IF v.ref # <<>> THEN Ok(<<>>, <<Diag(180, name)>>)
    ELSE CASE kinType(v) = "string" -> parseString(name, v)
           [] kinType(v) = "array"  -> kinArray(name, v)
           [] OTHER                 -> Ok(<<>>, <<Diag(200, name)>>)

\* whether parseSchema hands the schema to parseObject
IsObjectSchema(e, v) ==
    IF e = "kin" THEN v.ref = <<>> /\ kinType(v) = "object"
    ELSE Len(v.type) > 0 /\ v.type[1] = "object"

(* ----------------------------------------------------------------------- *)
(* parseObject: one iteration of the range over v.Properties.              *)
(* The outcome of an iteration is                                          *)
(*   "append"   t.Properties = append(t.Properties, prop)                  *)
(*   "skip"     continue, the property is dropped                          *)
(*   "descend"  the recursive parseObject call for an inline object        *)
(*   "panic"    schema.Items is nil                                        *)
(* ----------------------------------------------------------------------- *)

\* mutant of isRequired: the normalized name is looked up
isRequiredByName(v, propertyName) == ToSnake(propertyName) \in v.required

\* slices.Contains(v.Required, propertyName)
isRequired(v, propertyName) == propertyName \in v.required

\* Property{Name, SchemaName, Type, Required} at the top of the loop body
newProperty(v, propertyName) ==
    [Name |-> ToSnake(propertyName), SchemaName |-> propertyName,
     Type |-> SorbetUntyped, Required |-> isRequired(v, propertyName),
     IsArray |-> FALSE]

\* objectTypeName := name + "_" + propertyName
objectTypeName(name, propertyName) == name \o Sep \o propertyName

\* prop.Type of a property that is an inline object
nestedPropType(name, propertyName) == ToCamel(objectTypeName(name, propertyName))

Step(kind, prop, lg) == [kind |-> kind, prop |-> prop, log |-> lg]

\* the array arm of the switch in parseObject
arrayProperty(name, propertyName, schema, prop0) ==
    LET prop == [prop0 EXCEPT !.IsArray = TRUE, !.Type = SorbetUntyped]
    IN  IF schema.items = <<>> THEN Step("panic", prop, <<>>)
        ELSE LET d == schema.items[1]
             IN  IF d.N = 1 THEN Step("append", prop, <<>>)
                 ELSE IF d.A.ref # <<>>
                   THEN Step("append",
                             [prop EXCEPT !.Type = ToCamel(LastSegment(d.A.ref))],
                             <<>>)
                 ELSE IF Len(d.A.type) > 0
                   THEN CASE d.A.type[1] = "string" ->
                               Step("append", [prop EXCEPT !.Type = TString], <<>>)
                          [] d.A.type[1] = "integer" ->
                               Step("append", [prop EXCEPT !.Type = TInteger], <<>>)
                          [] OTHER ->
                               Step("append", prop, <<Diag(207, name)>>)
                 ELSE Step("append", prop, <<Diag(210, name)>>)

propertyStep(name, propertyName, v) ==
    LET prop == newProperty(v, propertyName)
        v2   == v.props[propertyName]
    IN  IF v2.ref # <<>>
          THEN Step("append", [prop EXCEPT !.Type = ToCamel(LastSegment(v2.ref))], <<>>)
        ELSE IF Len(v2.type) = 0
          THEN Step("skip", prop, <<Diag(169, name \o Dot \o propertyName)>>)
        ELSE CASE v2.type[1] = "string"  ->
                    Step("append", [prop EXCEPT !.Type = TString], <<>>)
               [] v2.type[1] = "boolean" ->
                    Step("append", [prop EXCEPT !.Type = TBoolean], <<>>)
               [] v2.type[1] = "integer" ->
                    Step("append", [prop EXCEPT !.Type = TInteger], <<>>)
               [] v2.type[1] = "object"  -> Step("descend", prop, <<>>)
               [] v2.type[1] = "array"   -> arrayProperty(name, propertyName, v2, prop)
               [] OTHER ->
                    Step("append", prop, <<Diag(217, name \o Dot \o propertyName)>>)

\* the loop body of parseObject in cmd/openapi-sorbet/main.go
kinPropertyStep(name, propertyName, v) ==
    LET prop == newProperty(v, propertyName)
        v2   == v.props[propertyName]
    IN  IF v2.ref # <<>>
          THEN Step("append", [prop EXCEPT !.Type = LastSegment(v2.ref)], <<>>)
        ELSE CASE kinType(v2) = "string"  ->
                    Step("append", [prop EXCEPT !.Type = TString], <<>>)
               [] kinType(v2) = "integer" ->
                    Step("append", [prop EXCEPT !.Type = TInteger], <<>>)
               [] OTHER ->
                    Step("append", prop, <<Diag(152, name \o Dot \o propertyName)>>)

(* ----------------------------------------------------------------------- *)
(* parseObject: after the loop.                                            *)
(* ----------------------------------------------------------------------- *)

\* slices.SortStableFunc(t.Properties, a.Name < b.Name): the last element is
\* put behind every element that is not greater than it
RECURSIVE SortStableFunc(_)
SortStableFunc(ps) ==
    IF Len(ps) <= 1 THEN ps
    ELSE LET rest == SortStableFunc(SubSeq(ps, 1, Len(ps) - 1))
             x    == ps[Len(ps)]
             keep == Cardinality({ j \in 1..Len(rest) :
                                     ~StrLess(x.Name, rest[j].Name) })
         IN  SubSeq(rest, 1, keep) \o <<x>> \o SubSeq(rest, keep + 1, Len(rest))

Addl(value, lg) == [value |-> value, log |-> lg]

\* mutant of additionalProperties: only string-valued schemas are handled
additionalPropertiesStringOnly(name, v) ==
    IF v.addl.kind = "schema" /\ Len(v.addl.schema.type) > 0
                              /\ v.addl.schema.type[1] = "string"
      THEN Addl(TString, <<>>)
      ELSE Addl(<<>>, <<>>)

\* the additional-properties step of parseObject (libopenapi)
additionalProperties(name, v) ==
    IF v.addl.kind = "bool" /\ v.addl.b THEN Addl(SorbetUntyped, <<>>)
    ELSE IF v.addl.kind = "schema"
      THEN LET schema == v.addl.schema
           IN  IF Len(schema.type) > 0
                 THEN CASE schema.type[1] = "string"  -> Addl(TString, <<>>)
                        [] schema.type[1] = "integer" -> Addl(TInteger, <<>>)
                        [] OTHER -> Addl(<<>>, <<Diag(243, name)>>)
                 ELSE Addl(<<>>, <<Diag(246, name)>>)
      ELSE Addl(<<>>, <<>>)

\* the additional-properties step of parseObject (kin-openapi)
kinAdditionalProperties(name, v) ==
    IF v.addl.kind = "schema"
      THEN IF kinType(v.addl.schema) = "string"
             THEN Addl(TString, <<>>)
             ELSE Addl(<<>>, <<Diag(168, name)>>)
      ELSE Addl(<<>>, <<>>)

\* mutant of objectResult: the parent is put ahead of its children
objectResultParentFirst(childTypes, t) == <<t>> \o childTypes

\* types = append(types, t); return types
objectResult(childTypes, t) == Append(childTypes, t)

(* ----------------------------------------------------------------------- *)
(* The state of a run of main.                                             *)
(*   engine    which revision of the command runs                          *)
(*   doc       d.Model.Components.Schemas, name -> node                    *)
(*   pc        "loop": between two iterations of the range over the        *)
(*             schemas; "object": inside parseObject; "resolved": the      *)
(*             loop is over and the output directory made, main writes     *)
(*             the files; "panicked": a resolver panicked;                 *)
(*             "fatal": must ended the run with log.Fatal                  *)
(*   pending   the schema names the range has not yet visited              *)
(*   k, types  the loop variables of main: the schema being resolved and   *)
(*             what parseSchema returned for it                            *)
(*   stack     the active parseObject calls, innermost last                *)
(*   allTypes  the result list                                             *)
(*   log       the diagnostics written so far                              *)
(*   firstRun  <<l>> once an earlier run on the same document has          *)
(*             ended with result list l; <<>> before                       *)
(*   written   how many entries of allTypes the last loop of main, the     *)
(*             one that writes the files, has been through                 *)
(*   outDir    the files below the output directory, path -> content       *)
(* ----------------------------------------------------------------------- *)
VARIABLES engine, doc, pc, pending, k, types, stack, allTypes, log, firstRun,
          written, outDir

vars == <<engine, doc, pc, pending, k, types, stack, allTypes, log, firstRun,
          written, outDir>>

\* a parseObject call: its arguments, the properties the range has yet to
\* visit, the property whose inline object is being resolved (<<prop>>, or
\* <<>>), t and types
Frame(name, v) ==
    [name |-> name, v |-> v, todo |-> DOMAIN v.props, prop |-> <<>>,
     t |-> [NewType(name) EXCEPT !.BaseClass = TStruct], types |-> <<>>]

Top == stack[Len(stack)]

SetTop(f) == [stack EXCEPT ![Len(stack)] = f]

Start ==
    /\ doc \in Documents
    /\ pc = "loop"
    /\ pending = DOMAIN doc
    /\ k = <<>>
    /\ types = <<>>
    /\ stack = <<>>
    /\ allTypes = <<>>
    /\ log = <<>>
    /\ firstRun = <<>>
    /\ written = 0
    /\ outDir = <<>>

Init == engine = "libopenapi" /\ Start

InitAll == engine \in {"libopenapi", "kin"} /\ Start

\* main, libopenapi: a top-level schema that is a reference is skipped
SkipRef(key) ==
    /\ pc = "loop"
    /\ key \in pending
    /\ engine = "libopenapi"
    /\ doc[key].ref # <<>>
    /\ log' = Append(log, Diag(369, key))
    /\ pending' = pending \ {key}
    /\ k' = key
    /\ types' = <<>>
    /\ UNCHANGED <<engine, doc, pc, stack, allTypes, firstRun, written, outDir>>

\* one iteration of the loop of main for a schema that parseSchema does not
\* hand to parseObject
ResolveSchema(key) ==
    /\ pc = "loop"
    /\ key \in pending
    /\ engine = "libopenapi" => doc[key].ref = <<>>
    /\ ~IsObjectSchema(engine, doc[key])
    /\ LET r == IF engine = "kin" THEN kinParseSchema(key, doc[key])
                ELSE parseSchema(key, doc[key])
           missing == IF Len(r.types) = 0 THEN <<Diag(376, key)>> ELSE <<>>
       IN  /\ k' = key
           /\ pending' = pending \ {key}
           /\ IF r.ok
                THEN /\ types' = r.types
                     /\ log' = log \o r.log \o missing
                     /\ allTypes' = allTypes \o r.types
                     /\ pc' = "loop"
                ELSE /\ log' = log \o r.log
                     /\ pc' = "panicked"
                     /\ UNCHANGED <<types, allTypes>>
    /\ UNCHANGED <<engine, doc, stack, firstRun, written, outDir>>

\* parseSchema calls parseObject for a top-level object schema
EnterObject(key) ==
    /\ pc = "loop"
    /\ key \in pending
    /\ engine = "libopenapi" => doc[key].ref = <<>>
    /\ IsObjectSchema(engine, doc[key])
    /\ k' = key
    /\ pending' = pending \ {key}
    /\ stack' = <<Frame(key, doc[key])>>
    /\ pc' = "object"
    /\ UNCHANGED <<engine, doc, types, allTypes, log, firstRun, written, outDir>>

\* one iteration of the range over v.Properties in the innermost call
VisitProperty(propertyName) ==
    /\ pc = "object"
    /\ propertyName \in Top.todo
    /\ LET f == Top
           r == IF engine = "kin" THEN kinPropertyStep(f.name, propertyName, f.v)
                ELSE propertyStep(f.name, propertyName, f.v)
           g == [f EXCEPT !.todo = f.todo \ {propertyName}]
       IN  /\ log' = log \o r.log
           /\ CASE r.kind = "append" ->
                     /\ stack' = SetTop([g EXCEPT !.t.Properties = Append(@, r.prop)])
                     /\ pc' = pc
                [] r.kind = "skip" ->
                     /\ stack' = SetTop(g)
                     /\ pc' = pc
                [] r.kind = "descend" ->
                     /\ stack' = Append(SetTop([g EXCEPT !.prop = <<r.prop>>]),
                                        Frame(objectTypeName(f.name, propertyName),
                                              f.v.props[propertyName]))
                     /\ pc' = pc
                [] OTHER ->
                     /\ stack' = stack
                     /\ pc' = "panicked"
    /\ UNCHANGED <<engine, doc, pending, k, types, allTypes, firstRun, written, outDir>>

\* the innermost parseObject call sorts its properties, sets
\* AdditionalProperties, appends its Type and returns: to the call it was
\* made from, or to parseSchema and main
ReturnObject ==
    /\ pc = "object"
    /\ Top.todo = {}
    /\ LET f    == Top
           ap   == IF engine = "kin" THEN kinAdditionalProperties(f.name, f.v)
                   ELSE additionalProperties(f.name, f.v)
           t    == [f.t EXCEPT !.Properties = SortStableFunc(@),
                               !.AdditionalProperties = ap.value]
           out  == objectResult(f.types, t)
       IN  /\ log' = log \o ap.log
           /\ IF Len(stack) = 1
                THEN /\ stack' = <<>>
                     /\ types' = out
                     /\ allTypes' = allTypes \o out
                     /\ pc' = "loop"
                ELSE LET g    == stack[Len(stack) - 1]
                         prop == [g.prop[1] EXCEPT
                                    !.Type = nestedPropType(g.name, g.prop[1].SchemaName)]
                     IN  /\ stack' = [SubSeq(stack, 1, Len(stack) - 1) EXCEPT
                                        ![Len(stack) - 1] =
                                           [g EXCEPT !.types = @ \o out,
                                                     !.prop = <<>>,
                                                     !.t.Properties = Append(@, prop)]]
                         /\ UNCHANGED <<types, allTypes, pc>>
    /\ UNCHANGED <<engine, doc, pending, k, firstRun, written, outDir>>

\* the range over the schemas is over; os.MkdirAll made the output directory
LoopEnd ==
    /\ pc = "loop"
    /\ pending = {}
    /\ pc' = "resolved"
    /\ UNCHANGED <<engine, doc, pending, k, types, stack, allTypes, log, firstRun, written, outDir>>

\* "out/", the default of the -out flag joined with a file name (no -module)
outPath == <<111, 117, 116, 47>>

\* ".rb"
Ext == <<46, 114, 98>>

\* filepath.Join(outPath, t.Filename) + ".rb"
Path(t) == outPath \o t.Filename \o Ext

\* what classTemplate.Execute writes for a Type: the rendering of data.Type
\* (the metadata is the same in every file of a run); whole = FALSE for a
\* file that Execute or Close left incomplete
Rendered(t, whole) == [Type |-> t, whole |-> whole]

\* os.Create on `path`, then the write of `content`: a new file, or the
\* file that was at `path` truncated and written anew
Create(dir, path, content) ==
    [q \in (DOMAIN dir) \cup {path} |-> IF q = path THEN content ELSE dir[q]]

\* one iteration of the range over allTypes: os.Create, Execute, Close
WriteFile ==
    /\ pc = "resolved"
    /\ written < Len(allTypes)
    /\ LET t == allTypes[written + 1]
       IN  outDir' = Create(outDir, Path(t), Rendered(t, TRUE))
    /\ written' = written + 1
    /\ UNCHANGED <<engine, doc, pc, pending, k, types, stack, allTypes, log, firstRun>>

\* must(err) ends the run: os.MkdirAll failed after the loop over the
\* schemas, or, in an iteration of the range over allTypes, os.Create failed
\* (no file) or Execute or Close failed (the file is there, incomplete)
MustFails ==
    /\ \E call \in {"MkdirAll", "Create", "Execute"} :
          CASE call = "MkdirAll" ->
                 /\ pc = "loop"
                 /\ pending = {}
                 /\ outDir' = outDir
            [] call = "Create" ->
                 /\ pc = "resolved"
                 /\ written < Len(allTypes)
                 /\ outDir' = outDir
            [] OTHER ->
                 /\ pc = "resolved"
                 /\ written < Len(allTypes)
                 /\ LET t == allTypes[written + 1]
                    IN  outDir' = Create(outDir, Path(t), Rendered(t, FALSE))
    /\ pc' = "fatal"
    /\ UNCHANGED <<engine, doc, pending, k, types, stack, allTypes, log, firstRun, written>>

\* the command is run again on the same document
Rerun ==
    /\ pc = "resolved"
    /\ written = Len(allTypes)
    /\ firstRun = <<>>
    /\ firstRun' = <<allTypes>>
    /\ pc' = "loop"
    /\ pending' = DOMAIN doc
    /\ k' = <<>>
    /\ types' = <<>>
    /\ stack' = <<>>
    /\ allTypes' = <<>>
    /\ log' = <<>>
    /\ written' = 0
    /\ UNCHANGED <<engine, doc, outDir>>

Next ==
    \/ \E key \in DOMAIN doc : SkipRef(key)
    \/ \E key \in DOMAIN doc : ResolveSchema(key)
    \/ \E key \in DOMAIN doc : EnterObject(key)
    \/ \E propertyName \in PropNames : VisitProperty(propertyName)
    \/ ReturnObject
    \/ LoopEnd
    \/ WriteFile
    \/ MustFails

Spec == Init /\ [][Next]_vars

\* both revisions of the command
SpecAll == InitAll /\ [][Next]_vars

\* two runs on one document
SpecRerun == Init /\ [][Next \/ Rerun]_vars

(* ----------------------------------------------------------------------- *)
(* Vocabulary of the properties.                                           *)
(* ----------------------------------------------------------------------- *)

\* the loop of main stands between two iterations, or is over, and schema k
\* is the one it resolved last
Resolved(key) == pc \in {"loop", "resolved"} /\ k = key

\* this step is the return of a parseObject call
ObjectReturns == pc = "object" /\ Len(stack') < Len(stack)

\* the list that call returned: the types of main, or the types of the
\* parseObject call it returns to
ReturnedList == IF Len(stack) = 1 THEN types' ELSE stack'[Len(stack')].types

\* the Type that call appended for its own schema
ReturnedType == ReturnedList[Len(ReturnedList)]

Range(q) == { q[i] : i \in 1..Len(q) }

\* a property schema that parseObject resolves as an inline object
IsInlineObject(v2) == v2.ref = <<>> /\ Len(v2.type) > 0 /\ v2.type[1] = "object"

(* ----------------------------------------------------------------------- *)
(* C1.  Determinism.                                                       *)
(* ----------------------------------------------------------------------- *)

\* C1: two runs of the resolver on one document end with the identical
\* ordered list of Type records, whatever order the schema map and the
\* property maps are ranged over.
C1_Determinism ==
    (pc = "resolved" /\ firstRun # <<>>) => allTypes = firstRun[1]

(* ----------------------------------------------------------------------- *)
(* C2.  No hard failure on a single schema entry.                          *)
(* ----------------------------------------------------------------------- *)

\* C2: whatever the shape of a schema entry (an enum list that is present
\* but empty or starts with null, an array without items, properties of
\* unknown or absent type), its resolver returns normally: no run is ever
\* aborted by a resolver.
C2_NeverHardFails == pc # "panicked"

(* ----------------------------------------------------------------------- *)
(* C3.  The primary shape of an emitted Type.                              *)
(* ----------------------------------------------------------------------- *)

ShapeCount(t) ==
    (IF IsObject(t) THEN 1 ELSE 0) + (IF t.Alias # <<>> THEN 1 ELSE 0)
    + (IF IsEnum(t) THEN 1 ELSE 0)

\* C3 as claimed: every emitted Type is exactly one of struct-shaped,
\* aliased (Alias non-empty) and enum-shaped (Enum non-empty).
C3_ExactlyOneShape == \A t \in Range(allTypes) : ShapeCount(t) = 1

\* C3 as amended: a struct-shaped Type has neither Alias nor Enum; a Type
\* that is not struct-shaped carries no Properties; an enum-shaped Type is
\* not struct-shaped and keeps the Alias "String" parseString gave it; a Type
\* with none of the three is the array of untyped elements (`items: <bool>`):
\* IsArray with AdditionalProperties "T.untyped".
C3_Shape ==
    \A t \in Range(allTypes) :
        /\ IsObject(t) => (t.Alias = <<>> /\ ~IsEnum(t))
        /\ ~IsObject(t) => t.Properties = <<>>
        /\ IsEnum(t) => (~IsObject(t) /\ t.Alias = TString)
        /\ ShapeCount(t) = 0 =>
              (t.IsArray /\ t.AdditionalProperties = SorbetUntyped)
        /\ ShapeCount(t) = 2 => IsEnum(t)
        /\ ShapeCount(t) <= 2

\* parseArray has emitted an array of untyped elements: a Type with none of
\* the three shapes
C3_Witness ==
    \E t \in Range(allTypes) : ShapeCount(t) = 0 /\ t.IsArray

(* ----------------------------------------------------------------------- *)
(* C4.  Inline objects are extracted ahead of their parent.                *)
(* ----------------------------------------------------------------------- *)

\* C4: when parseObject returns for a schema resolved under name N, the
\* record of N is the last element of the returned list, and for every
\* property p of N that is an inline object the list holds, before it, a
\* struct-shaped Type with SchemaName N + "_" + p whose TypeName is the Type
\* of N's property p; at every depth of nesting.
C4_NestedExtraction ==
    [][ObjectReturns =>
         LET f   == Top
             out == ReturnedList
             rec == ReturnedType
         IN  /\ rec.SchemaName = f.name
             /\ IsObject(rec)
             /\ \A p \in DOMAIN f.v.props :
                    IsInlineObject(f.v.props[p]) =>
                       \E i \in 1..(Len(out) - 1) :
                          /\ out[i].SchemaName = f.name \o Sep \o p
                          /\ IsObject(out[i])
                          /\ \E q \in Range(rec.Properties) :
                                /\ q.SchemaName = p
                                /\ q.Type = out[i].TypeName]_vars

\* parseSchema has returned for an object whose inline object holds an
\* inline object of its own: three records, grandchild, child, parent
C4_Witness ==
    /\ pc = "loop"
    /\ Len(types) >= 3
    /\ \E i, j \in 1..Len(types) :
          /\ i < j /\ j < Len(types)
          /\ IsObject(types[i]) /\ IsObject(types[j])
          /\ \E p, q \in PropNames :
                /\ types[j].SchemaName = types[Len(types)].SchemaName \o Sep \o p
                /\ types[i].SchemaName = types[j].SchemaName \o Sep \o q

(* ----------------------------------------------------------------------- *)
(* C5.  The order of the properties.                                       *)
(* ----------------------------------------------------------------------- *)

\* the lists a range over the same property map can have appended: every
\* order of the properties the loop appended
Reorderings(ps) ==
    { [i \in 1..Len(ps) |-> ps[pi[i]]] : pi \in Permutations(1..Len(ps)) }

Ascending(ps) ==
    \A i, j \in 1..Len(ps) : i < j => ~StrLess(ps[j].Name, ps[i].Name)

\* C5: the Properties of the Type parseObject emits are in ascending order
\* of Name, and are the same list for every order in which the property map
\* is ranged over.
C5_PropertyOrder ==
    [][ObjectReturns =>
         /\ Ascending(ReturnedType.Properties)
         /\ \A ps \in Reorderings(Top.t.Properties) :
               SortStableFunc(ps) = ReturnedType.Properties]_vars

(* ----------------------------------------------------------------------- *)
(* C6.  Enum degradation.                                                  *)
(* ----------------------------------------------------------------------- *)

\* a top-level string schema with a non-empty enum literal list
IsEnumSchema(v) ==
    /\ v.ref = <<>>
    /\ Len(v.type) > 0 /\ v.type[1] = "string"
    /\ v.enum.present /\ Len(v.enum.vals) > 0

\* the string literals of a list, in order, as Enum entries
RECURSIVE StringEntries(_)
StringEntries(vals) ==
    IF vals = <<>> THEN <<>>
    ELSE (IF vals[1].kind = "string"
            THEN <<[Name |-> ToCamel(vals[1].val), Value |-> vals[1].val]>>
            ELSE <<>>) \o StringEntries(Tail(vals))

\* the literals of a list that are not strings
NonStrings(vals) == { i \in 1..Len(vals) : vals[i].kind # "string" }

\* C6: for a string schema with a non-empty enum list the run is not
\* aborted, parseString emits exactly one Type, its Enum holds exactly the
\* string literals in input order with Value the literal, and every other
\* literal has produced one diagnostic of the skipping kind.
C6_EnumDegradation ==
    (k # <<>> /\ pc # "object" /\ IsEnumSchema(doc[k])) =>
        /\ pc # "panicked"
        /\ Len(types) = 1
        /\ types[1].Enum = StringEntries(doc[k].enum.vals)
        /\ Cardinality({ i \in 1..Len(log) : log[i] = Diag(117, k) })
             = Cardinality(NonStrings(doc[k].enum.vals))

(* ----------------------------------------------------------------------- *)
(* C7.  References resolve by name.                                        *)
(* ----------------------------------------------------------------------- *)

\* an array schema whose items are a reference
HasRefItems(v) ==
    /\ v.ref = <<>>
    /\ Len(v.type) > 0 /\ v.type[1] = "array"
    /\ v.items # <<>> /\ v.items[1].N = 0 /\ v.items[1].A.ref # <<>>

\* the normalized TypeName of the schema a reference names
RefTypeName(ref) == ToCamel(LastSegment(ref))

\* C7: a property that is a reference, an array property whose items are a
\* reference and a top-level array whose items are a reference all carry
\* the normalized TypeName of the reference's last path segment, and the
\* resolution emits nothing for the referenced schema.
C7_ReferenceByName ==
    /\ \A i \in 1..Len(stack) : \A q \in Range(stack[i].t.Properties) :
          LET v2 == stack[i].v.props[q.SchemaName]
          IN  /\ v2.ref # <<>> => q.Type = RefTypeName(v2.ref)
              /\ HasRefItems(v2) => q.Type = RefTypeName(v2.items[1].A.ref)
              /\ (v2.ref # <<>> \/ HasRefItems(v2)) =>
                    \A t \in Range(stack[i].types) :
                       t.SchemaName # LastSegment(v2.ref)
    /\ (k # <<>> /\ Resolved(k) /\ HasRefItems(doc[k])) =>
          /\ Len(types) = 1
          /\ types[1].Alias = RefTypeName(doc[k].items[1].A.ref)

(* ----------------------------------------------------------------------- *)
(* C8.  Additional properties.                                             *)
(* ----------------------------------------------------------------------- *)

\* the additional-properties declaration is a schema with this type tag
AddlOfType(v, tag) ==
    /\ v.addl.kind = "schema"
    /\ Len(v.addl.schema.type) > 0
    /\ v.addl.schema.type[1] = tag

\* C8 as claimed: the Type parseObject emits has AdditionalProperties
\* "String" when the additional-properties schema has value type string, and
\* unset in every other case.
C8_StringOrUnset ==
    [][ObjectReturns =>
         ReturnedType.AdditionalProperties =
            (IF AddlOfType(Top.v, "string") THEN TString ELSE <<>>)]_vars

\* C8 as amended: in the libopenapi resolver AdditionalProperties is
\* "String" for a string-valued schema, "Integer" for an integer-valued one,
\* "T.untyped" when additionalProperties is the boolean true, and unset in
\* every other case (absent, false, a schema of another or of no type); in
\* cmd/openapi-sorbet/main.go it is "String" for a string-valued schema and
\* unset in every other case.
C8_AdditionalProperties ==
    [][ObjectReturns =>
         ReturnedType.AdditionalProperties =
            (IF AddlOfType(Top.v, "string") THEN TString
             ELSE IF engine = "kin" THEN <<>>
             ELSE IF AddlOfType(Top.v, "integer") THEN TInteger
             ELSE IF Top.v.addl.kind = "bool" /\ Top.v.addl.b THEN SorbetUntyped
             ELSE <<>>)]_vars

\* the libopenapi resolver has emitted an object with integer-valued
\* additional properties
C8_Witness ==
    /\ engine = "libopenapi"
    /\ k # <<>> /\ Resolved(k)
    /\ AddlOfType(doc[k], "integer")
    /\ Len(types) = 1
    /\ types[1].AdditionalProperties = TInteger

(* ----------------------------------------------------------------------- *)
(* C9.  A top-level schema without a type tag.                             *)
(* ----------------------------------------------------------------------- *)

\* a top-level schema that is no reference and declares no type
IsUntagged(v) == v.ref = <<>> /\ Len(v.type) = 0

\* this step is the iteration of the loop of main for schema `key`
Iteration(key) == pc = "loop" /\ key \in pending /\ k' = key

\* the number of Type records a schema resolves to: one for a string, a
\* boolean and an array, one more than its inline objects for an object
RECURSIVE NumTypes(_), NumInline(_, _)
NumInline(v, ps) ==
    IF ps = {} THEN 0
    ELSE LET p == CHOOSE x \in ps : TRUE
         IN  NumTypes(v.props[p]) + NumInline(v, ps \ {p})

NumTypes(v) ==
    IF v.ref # <<>> \/ Len(v.type) = 0 THEN 0
    ELSE IF v.type[1] \in {"string", "boolean", "array"} THEN 1
    ELSE IF v.type[1] = "object"
      THEN 1 + NumInline(v, { p \in DOMAIN v.props : IsInlineObject(v.props[p]) })
    ELSE 0

\* the number of Type records the schemas `keys` of the document resolve to
RECURSIVE NumTypesOf(_)
NumTypesOf(keys) ==
    IF keys = {} THEN 0
    ELSE LET key == CHOOSE x \in keys : TRUE
         IN  NumTypes(doc[key]) + NumTypesOf(keys \ {key})

\* C9 as claimed: the iteration of main for a top-level schema without a
\* type tag adds no Type record and writes exactly one diagnostic.
C9_OneDiagnostic ==
    [][\A key \in DOMAIN doc :
          (Iteration(key) /\ IsUntagged(doc[key])) =>
              /\ types' = <<>>
              /\ allTypes' = allTypes
              /\ Len(log') = Len(log) + 1]_vars

\* C9 as amended: the iteration of main for a top-level schema without a
\* type tag adds no Type record, writes exactly two diagnostics, "Skipping
\* ... as no Type was present" of parseSchema and "Missing type data" of
\* main, and leaves the loop running; and when the loop is over on a
\* document with such a schema, every other schema has its records in the
\* result list: each resolvable schema has a record under its name, and the
\* list is as long as the records of the schemas taken one by one.
C9_UntaggedSchema ==
    /\ [][\A key \in DOMAIN doc :
             (Iteration(key) /\ IsUntagged(doc[key])) =>
                 /\ types' = <<>>
                 /\ allTypes' = allTypes
                 /\ log' = log \o <<Diag(298, key), Diag(376, key)>>
                 /\ pc' = "loop"]_vars
    /\ [](  (pc = "resolved" /\ \E key \in DOMAIN doc : IsUntagged(doc[key])) =>
              /\ \A key \in DOMAIN doc :
                    NumTypes(doc[key]) > 0 =>
                       \E t \in Range(allTypes) : t.SchemaName = key
              /\ Len(allTypes) = NumTypesOf(DOMAIN doc))

\* the loop is over on a document with a schema without a type tag and an
\* object schema that was resolved after it
C9_Witness ==
    /\ pc = "resolved"
    /\ \E key \in DOMAIN doc : IsUntagged(doc[key])
    /\ ~IsUntagged(doc[k])
    /\ Len(allTypes) >= 2
    /\ Len(log) >= 2

(* ----------------------------------------------------------------------- *)
(* C10.  Required.                                                         *)
(* ----------------------------------------------------------------------- *)

\* C10: every property of the Type parseObject emits has the original name
\* of a property of the schema as SchemaName, and Required exactly when that
\* original name is in the required set of the schema.
C10_Required ==
    [][ObjectReturns =>
         \A q \in Range(ReturnedType.Properties) :
            /\ q.SchemaName \in DOMAIN Top.v.props
            /\ q.Required <=> (q.SchemaName \in Top.v.required)]_vars

\* an object was emitted with a required property whose normalized Name
\* differs from its original name, beside one that is not required
C10_Witness ==
    /\ pc = "loop"
    /\ Len(types) > 0
    /\ \E q, r \in Range(types[Len(types)].Properties) :
          /\ q.Required /\ q.Name # q.SchemaName
          /\ ~r.Required

(* ----------------------------------------------------------------------- *)
(* C11.  One file per Type.                                                *)
(* ----------------------------------------------------------------------- *)

\* main returned: the schemas are resolved and the range over allTypes is
\* over, with no panic and no log.Fatal
Completed == pc = "resolved" /\ written = Len(allTypes)

\* the files of the output directory
Files == DOMAIN outDir

\* C11: no file is created before all top-level schemas have been resolved;
\* the files are then created one at a time in result-list order, the next
\* one always being the file of the first Type not yet written; and when
\* the run completes without a fatal error the output directory holds one
\* distinct file per emitted Type: as many files as the Type list is long,
\* each Type's file still holding what was written for that Type.
C11_OneFilePerType ==
    /\ [](pending # {} \/ pc \in {"loop", "object"} => Files = {})
    /\ [][written' # written =>
             /\ pc = "resolved"
             /\ written' = written + 1
             /\ Path(allTypes[written']) \in DOMAIN outDir'
             /\ outDir'[Path(allTypes[written'])] = Rendered(allTypes[written'], TRUE)
             /\ \A q \in Files \ {Path(allTypes[written'])} :
                    q \in DOMAIN outDir' /\ outDir'[q] = outDir[q]]_vars
    /\ [](Completed =>
             /\ Cardinality(Files) = Len(allTypes)
             /\ \A j \in 1..Len(allTypes) :
                    /\ Path(allTypes[j]) \in Files
                    /\ outDir[Path(allTypes[j])] = Rendered(allTypes[j], TRUE))

=============================================================================
